---- MODULE Spec2Model ----
\* A model of the two polling scripts of the repository:
\*   src/03.py  the price snapshot tool (get_price, main)
\*   src/04.py  the RSI report tool (CryptoPredictor, main)
\* Prices are integers.  An RSI value is kept in hundredths (6667 is 66.67),
\* which is what round(rsi, 2) can return.  Network calls are steps whose
\* outcome the environment chooses.
EXTENDS Integers, Sequences, FiniteSets, TLC

VARIABLES
    tool,        \* which program runs: "calc" | "snapshot" | "rsi"
    pc,          \* position of the running program
    once,        \* 03.py: the --once / -o flag
    idx,         \* 03.py: index of the for loop over SYMBOLS
    snap_prices, \* 03.py: the dict `prices` of main
    fetchLog,    \* history: the get_price calls of this cycle, <<symbol, result>>
    out,         \* the lines printed in the current cycle
    done,        \* history: the current cycle has printed all of its output
    intrAt,      \* history: where the latest KeyboardInterrupt arrived
    coin,        \* 04.py: coin_id of the get_rsi call in progress
    prices,      \* 04.py: the list `prices` of get_historical_prices
    src,         \* history: the source that filled `prices`
    primStatus,  \* history: what the market_chart request yielded
    secStatus,   \* history: what the klines request yielded
    cpSite,      \* 04.py: which get_current_price call is in progress
    cpLast,      \* history: outcome of the latest get_current_price call
    current_price, \* 04.py: what get_current_price returned
    hpResult,    \* 04.py: get_historical_prices "pending" | "returned" | "raised"
    df,          \* the DataFrame given to calculate_rsi
    period,      \* the period given to calculate_rsi
    rsi,         \* what calculate_rsi / get_rsi returned for df
    rsi_rev,     \* calculate_rsi of the series with the prices reversed
    btc_rsi,     \* 04.py: get_all_rsi's btc_rsi
    eth_rsi      \* 04.py: get_all_rsi's eth_rsi

vars == <<tool, pc, once, idx, snap_prices, fetchLog, out, done, intrAt, coin,
          prices, src, primStatus, secStatus, cpSite, cpLast, current_price,
          hpResult, df, period, rsi, rsi_rev, btc_rsi, eth_rsi>>

------------------------------------------------------------------------------
\* Bounds of the model.
MaxLen == 5       \* longest series given to calculate_rsi on its own
MaxPrice == 4     \* prices of those series are 1..MaxPrice
MaxPeriod == 3    \* periods tried are 1..MaxPeriod
MaxItems == 4     \* most rows in one API response
MaxQuote == 2     \* prices in API responses are 1..MaxQuote

\* Program constants.
Threshold == 3        \* len(prices) < 3
Minutes == 3          \* get_historical_prices(coin_id, minutes=3)
Period == 3           \* calculate_rsi(df, period=3)
Extra == 5            \* minutes + 5
Now == 100            \* datetime.now(), in minutes

\* A value that may be missing is a tuple: <<>> when missing, <<v>> (or a
\* fraction <<n, d>>) when present.
None == <<>>          \* Python's None
NaN == <<>>           \* a NaN element of a pandas Series
Bad == <<>>           \* a row of a response that makes its parsing raise

SeqsUpTo(S, n) == UNION {[1..k -> S] : k \in 0..n}

------------------------------------------------------------------------------
\* calculate_rsi (src/04.py 119-145)

Row(ts, p) == [timestamp |-> ts, price |-> p]

\* df.sort_values("timestamp"): ascending, rows of equal timestamp keep their order
RECURSIVE InsertByTimestamp(_, _)
InsertByTimestamp(row, s) ==
    IF s = <<>> THEN <<row>>
    ELSE IF row.timestamp < Head(s).timestamp THEN <<row>> \o s
    ELSE <<Head(s)>> \o InsertByTimestamp(row, Tail(s))

RECURSIVE sort_values(_)
sort_values(s) ==
    IF s = <<>> THEN <<>>
    ELSE InsertByTimestamp(s[Len(s)], sort_values(SubSeq(s, 1, Len(s) - 1)))

\* df["price"].diff(): the first element has no predecessor
diff(s) ==
    [i \in 1..Len(s) |-> IF i = 1 THEN NaN ELSE <<s[i].price - s[i-1].price>>]

\* delta.where(delta > 0, 0): NaN > 0 is False, so NaN becomes 0
GainOf(d) == IF d # NaN /\ d[1] > 0 THEN d[1] ELSE 0

\* -delta.where(delta < 0, 0)
LossOf(d) == -(IF d # NaN /\ d[1] < 0 THEN d[1] ELSE 0)

RECURSIVE SumRange(_, _, _)
SumRange(x, lo, hi) == IF lo > hi THEN 0 ELSE x[hi] + SumRange(x, lo, hi - 1)

\* x.rolling(window=w).mean(): NaN until w values are there; a mean is the
\* fraction <<sum, w>>
rolling_mean(x, w) ==
    [i \in 1..Len(x) |-> IF i < w THEN NaN ELSE <<SumRange(x, i - w + 1, i), w>>]

\* loss.replace(0, np.nan)
replace_zero(m) == IF m # NaN /\ m[1] = 0 THEN NaN ELSE m

\* gain / loss on fractions; NaN if either is NaN
Divide(g, l) == IF g = NaN \/ l = NaN THEN NaN ELSE <<g[1] * l[2], g[2] * l[1]>>

\* fillna0 with the usual convention: no loss is an unbounded ratio, RSI 100
fillna0_Textbook(r) == IF r = NaN THEN <<1, 0>> ELSE r

\* rs.fillna(0)
fillna0(r) == IF r = NaN THEN <<0, 1>> ELSE r

\* rs = gain / loss.replace(0, np.nan); rs = rs.fillna(0)
RelativeStrength(g, l) == fillna0(Divide(g, replace_zero(l)))

\* 100 - (100 / (1 + rs)) for rs = n/d, as a fraction
RsiOf(r) ==
    IF r = NaN THEN NaN
    ELSE <<100 * (r[2] + r[1]) - 100 * r[2], r[2] + r[1]>>

\* round(x, 2) of the fraction n/d, in hundredths, halves to the even neighbour
round2(f) ==
    LET n == 100 * f[1]
        d == f[2]
        q == n \div d
        r == n % d
    IN  IF 2 * r < d THEN q
        ELSE IF 2 * r > d THEN q + 1
        ELSE IF q % 2 = 0 THEN q ELSE q + 1

\* TooShort with the bound one too low
TooShort_OffByOne(s, per) == Len(s) < per

\* if len(df) < period + 1: return None
TooShort(s, per) == Len(s) < per + 1

\* The Series rs of calculate_rsi, for a series long enough
RsSeries(s, per) ==
    LET delta == diff(sort_values(s))
        gain == rolling_mean([i \in 1..Len(delta) |-> GainOf(delta[i])], per)
        loss == rolling_mean([i \in 1..Len(delta) |-> LossOf(delta[i])], per)
    IN  [i \in 1..Len(delta) |-> RelativeStrength(gain[i], loss[i])]

calculate_rsi(s, per) ==
    IF TooShort(s, per) THEN None
    ELSE LET rs == RsSeries(s, per)
             last == RsiOf(rs[Len(rs)])
         IN  IF Len(rs) > 0 /\ last # NaN THEN <<round2(last)>> ELSE None

------------------------------------------------------------------------------
\* calculate_rsi applied on its own to series drawn from bounded sets

\* The rows of a series with prices p, one per minute, listed oldest first
\* ("asc") or latest first ("desc")
Arrange(p, order) ==
    [i \in 1..Len(p) |->
        IF order = "asc" THEN Row(i, p[i]) ELSE Row(Len(p) + 1 - i, p[i])]

\* The series with the same timestamps whose prices run in the opposite order
Reversed(s) ==
    LET t == sort_values(s)
    IN  [i \in 1..Len(t) |-> Row(t[i].timestamp, t[Len(t) + 1 - i].price)]

InputSeries ==
    {Arrange(p, order) : p \in SeqsUpTo(1..MaxPrice, MaxLen), order \in {"asc", "desc"}}

------------------------------------------------------------------------------
\* The price snapshot tool (src/03.py)

SYMBOLS == <<"BTCUSDT", "ETHUSDT">>

\* What get_price returns: a price, or None after printing the failure
GetPriceResults == {<<p>> : p \in 1..MaxQuote} \cup {None}

EmptyDict == [s \in {"BTCUSDT", "ETHUSDT"} |-> None]

\* if price is not None: prices[symbol] = price
StorePrice(d, symbol, price) ==
    IF price # None THEN [d EXCEPT ![symbol] = price] ELSE d

PriceLine(p) == [kind |-> "price", text |-> ToString(p)]
ErrorLine(symbol) == [kind |-> "error", text |-> symbol]

\* if prices: if symbol in prices: print(f"{prices[symbol]}")
PrintIfPresent(d, symbol) ==
    IF (\E s \in DOMAIN d : d[s] # None) /\ d[symbol] # None
    THEN <<PriceLine(d[symbol][1])>>
    ELSE <<>>

\* AfterFetch with the loop left after its first pass
AfterFetch_Break(i) == <<"print_btc", i>>

\* The position after the body of the for loop at index i
AfterFetch(i) == IF i < Len(SYMBOLS) THEN <<"fetch", i + 1>> ELSE <<"print_btc", i>>

------------------------------------------------------------------------------
\* The RSI report tool (src/04.py): price history acquisition

\* A response is a sequence of rows: <<p>> a row with price p, Bad a row whose
\* parsing raises
ResponseRows == {<<100 * q>> : q \in 1..MaxQuote} \cup {Bad}
ChartResponses == SeqsUpTo(ResponseRows, MaxItems)
Spacings == {1, 5}    \* minutes between the samples of a market_chart response
Noise == {-1, 1}      \* draws of np.random.normal(0, 0.01), in hundredths

Min(a, b) == IF a < b THEN a ELSE b

\* "limit": minutes + 5
KlineLimit(minutes) == minutes + Extra
KlineResponses(minutes) == SeqsUpTo(ResponseRows, Min(MaxItems, KlineLimit(minutes)))

HasBad(resp) == \E i \in 1..Len(resp) : resp[i] = Bad

\* The rows of a response whose samples are `step` minutes apart and end now
TimedRows(resp, step) ==
    [i \in 1..Len(resp) |-> Row(Now - step * (Len(resp) - i), resp[i][1])]

\* (datetime.now() - timestamp).total_seconds() <= minutes * 60
IsRecent(ts, minutes) == (Now - ts) * 60 <= minutes * 60

\* The loop over data["prices"], for a response without a Bad row
FilterRecent(resp, step, minutes) ==
    SelectSeq(TimedRows(resp, step), LAMBDA r : IsRecent(r.timestamp, minutes))

\* The loop over klines: it appends rows until one raises
RECURSIVE GoodPrefix(_)
GoodPrefix(resp) ==
    IF resp = <<>> \/ Head(resp) = Bad THEN <<>>
    ELSE <<Head(resp)>> \o GoodPrefix(Tail(resp))

ParseKlines(resp) ==
    LET good == GoodPrefix(resp)
    IN  [i \in 1..Len(good) |-> Row(Now - (Len(resp) - i), good[i][1])]

\* if len(prices) < 3
Insufficient(p) == Len(p) < Threshold

\* for i in range(minutes + 5): current_price * (1 + np.random.normal(0, 0.01))
Synthesize(cp, noise, minutes) ==
    [i \in 1..(minutes + Extra) |->
        Row(Now - (minutes + 5 - i), (cp * (100 + noise[i])) \div 100)]

\* What get_current_price does when its backup request fails too
AfterLookupFailure(site) == IF site = "try" THEN "handler" ELSE "raise"

\* get_rsi: calculate_rsi of the series, None when the acquisition raised
get_rsi(result, series) ==
    IF result = "raised" THEN None ELSE calculate_rsi(series, Period)

------------------------------------------------------------------------------
\* The RSI report tool: report formatting (get_all_rsi 164-173, main 190-194)

\* int with rounding to the nearest integer
int_Rounds(h) == (h + 50) \div 100

\* int(x) of an RSI in hundredths
int(h) == IF h >= 0 THEN h \div 100 ELSE -((-h) \div 100)

Clause(name, r) == IF r # None THEN <<name, ToString(int(r[1]))>> ELSE <<>>

\* The line as its words, which one space separates
FormatReport(b, e) == <<"rsi">> \o Clause("brsi", b) \o Clause("ersi", e)

Sentinel == <<"rsi", "failed">>      \* print("rsi ...") of main's else branch
ExitLine == <<"exited">>             \* the line printed on KeyboardInterrupt

\* if result: print(result) else: print(the sentinel)
MainPrints(result) == IF Len(result) > 0 THEN result ELSE Sentinel

------------------------------------------------------------------------------
\* Exceptions.  A request that fails raises an "Exception"; an interrupt
\* signal raises "KeyboardInterrupt", which `except Exception` lets pass and a
\* bare `except:` catches.

Catches(clause, exc) ==
    \/ clause = "bare"
    \/ clause = "Exception" /\ exc = "Exception"

\* HandlerAt without the try of get_historical_prices (48, 107)
HandlerAt_NoOuterTry(p) ==
    CASE p = "hp_secondary" -> "bare"
      [] p = "cp_main" -> "Exception"
      [] p = "cp_backup" -> "bare"
      [] OTHER -> "none"

\* HandlerAt with `except Exception:` in the place of the `except:` of 91
HandlerAt_NarrowSecondary(p) ==
    CASE p = "hp_primary" -> "Exception"
      [] p = "hp_secondary" -> "Exception"
      [] p = "cp_main" -> "Exception"
      [] p = "cp_backup" -> "bare"
      [] OTHER -> "none"

\* The except clause of the innermost try around each request of 04.py
HandlerAt(p) ==
    CASE p = "hp_primary" -> "Exception"      \* 107
      [] p = "hp_secondary" -> "bare"         \* 91
      [] p = "cp_main" -> "Exception"         \* 34
      [] p = "cp_backup" -> "bare"            \* 43
      [] OTHER -> "none"

\* The interrupt is caught where it arrives.  Anywhere else it passes every
\* `except Exception` on its way (34, 107, 153, 195) and reaches main's
\* `except KeyboardInterrupt` (201; 51 in 03.py)
BareExcept(t, p) == t = "rsi" /\ Catches(HandlerAt(p), "KeyboardInterrupt")

------------------------------------------------------------------------------
\* Initial states

snapVars == <<once, idx, snap_prices, fetchLog>>
acqVars == <<coin, prices, src, primStatus, secStatus, cpSite, cpLast,
             current_price, hpResult>>
calcVars == <<df, period, rsi, rsi_rev>>

SnapIdle ==
    /\ idx = 1
    /\ snap_prices = EmptyDict
    /\ fetchLog = <<>>

AcqIdle ==
    /\ coin = "bitcoin"
    /\ prices = <<>>
    /\ src = "none"
    /\ primStatus = <<"untried", 0>>
    /\ secStatus = <<"untried", 0>>
    /\ cpSite = "none"
    /\ cpLast = "none"
    /\ current_price = None
    /\ hpResult = "pending"
    /\ btc_rsi = None
    /\ eth_rsi = None

CommonIdle ==
    /\ out = <<>>
    /\ done = FALSE
    /\ intrAt = "none"

\* calculate_rsi on its own
InitCalc ==
    /\ tool = "calc"
    /\ pc = "input"
    /\ once = FALSE
    /\ SnapIdle /\ AcqIdle /\ CommonIdle
    /\ df \in InputSeries
    /\ period \in 1..MaxPeriod
    /\ rsi = None
    /\ rsi_rev = None

\* One of the two scripts starts
Init ==
    /\ tool \in {"snapshot", "rsi"}
    /\ pc = IF tool = "snapshot" THEN "fetch" ELSE "hp_primary"
    /\ once \in (IF tool = "snapshot" THEN BOOLEAN ELSE {FALSE})
    /\ SnapIdle /\ AcqIdle /\ CommonIdle
    /\ df = <<>>
    /\ period = Period
    /\ rsi = None
    /\ rsi_rev = None

------------------------------------------------------------------------------
\* calculate_rsi on its own: the call, and the call on the reversed series

Calculate ==
    /\ tool = "calc" /\ pc = "input"
    /\ rsi' = calculate_rsi(df, period)
    /\ pc' = "calculated"
    /\ UNCHANGED <<tool, snapVars, acqVars, out, done, intrAt, df, period,
                   rsi_rev, btc_rsi, eth_rsi>>

CalculateReversed ==
    /\ tool = "calc" /\ pc = "calculated"
    /\ rsi_rev' = calculate_rsi(Reversed(df), period)
    /\ pc' = "compared"
    /\ UNCHANGED <<tool, snapVars, acqVars, out, done, intrAt, df, period,
                   rsi, btc_rsi, eth_rsi>>

NextCalc == Calculate \/ CalculateReversed

SpecCalc == InitCalc /\ [][NextCalc]_vars

------------------------------------------------------------------------------
\* The price snapshot tool: main's loop (src/03.py 32-49)

\* The body of the for loop: one get_price call
FetchPrice ==
    /\ tool = "snapshot" /\ pc = "fetch"
    /\ \E price \in GetPriceResults :
          LET symbol == SYMBOLS[idx] IN
          /\ fetchLog' = Append(fetchLog, <<symbol, price>>)
          /\ snap_prices' = StorePrice(snap_prices, symbol, price)
          /\ out' = IF price = None THEN Append(out, ErrorLine(symbol)) ELSE out
    /\ pc' = AfterFetch(idx)[1]
    /\ idx' = AfterFetch(idx)[2]
    /\ UNCHANGED <<tool, once, done, intrAt, acqVars, calcVars, btc_rsi, eth_rsi>>

PrintBTC ==
    /\ tool = "snapshot" /\ pc = "print_btc"
    /\ out' = out \o PrintIfPresent(snap_prices, "BTCUSDT")
    /\ pc' = "print_eth"
    /\ UNCHANGED <<tool, snapVars, done, intrAt, acqVars, calcVars, btc_rsi, eth_rsi>>

\* The last print of the cycle, then `if once: break`
PrintETH ==
    /\ tool = "snapshot" /\ pc = "print_eth"
    /\ out' = out \o PrintIfPresent(snap_prices, "ETHUSDT")
    /\ done' = TRUE
    /\ pc' = IF once THEN "exited" ELSE "sleep"
    /\ UNCHANGED <<tool, snapVars, intrAt, acqVars, calcVars, btc_rsi, eth_rsi>>

\* time.sleep(1), then the next cycle starts with prices = {}
SnapSleep ==
    /\ tool = "snapshot" /\ pc = "sleep"
    /\ pc' = "fetch"
    /\ idx' = 1
    /\ snap_prices' = EmptyDict
    /\ fetchLog' = <<>>
    /\ out' = <<>>
    /\ done' = FALSE
    /\ UNCHANGED <<tool, once, intrAt, acqVars, calcVars, btc_rsi, eth_rsi>>

------------------------------------------------------------------------------
\* The RSI report tool: one get_rsi call after the other, then the report

\* get_historical_prices ends (a DataFrame returned, or the exception of
\* get_current_price raised) and get_rsi computes its value
GetRsiEnds(result, series) ==
    /\ hpResult' = result
    /\ df' = series
    /\ rsi' = get_rsi(result, series)
    /\ pc' = "rsi_done"
    /\ UNCHANGED <<btc_rsi, eth_rsi, coin>>

GetRsiGoesOn(next) ==
    /\ pc' = next
    /\ hpResult' = "pending"
    /\ UNCHANGED <<df, rsi, btc_rsi, eth_rsi, coin>>

\* The market_chart request or the loop over its rows raised: except
\* Exception (107), where the lookup of 108 comes next
PrimaryRaised ==
    /\ primStatus' = <<"raised", 0>>
    /\ prices' = <<>>
    /\ src' = "none"
    /\ IF Catches(HandlerAt("hp_primary"), "Exception")
       THEN /\ cpSite' = "except"
            /\ GetRsiGoesOn("cp_main")
       ELSE /\ cpSite' = "none"
            /\ GetRsiEnds("raised", <<>>)

\* The loop over the rows ended with the list `kept`: the checks of 71 and 95
PrimaryParsed(kept) ==
    /\ primStatus' = <<"got", Len(kept)>>
    /\ prices' = kept
    /\ src' = "primary"
    /\ cpSite' = "none"
    /\ IF Insufficient(kept)
       THEN GetRsiGoesOn("hp_secondary")
       ELSE GetRsiEnds("returned", kept)

\* The market_chart request and the loop over its rows (48-68)
PrimaryFetch ==
    /\ tool = "rsi" /\ pc = "hp_primary"
    /\ secStatus' = <<"untried", 0>>
    /\ cpLast' = "none"
    /\ \/ PrimaryRaised
       \/ \E resp \in ChartResponses, step \in Spacings :
             IF HasBad(resp)
             THEN PrimaryRaised
             ELSE PrimaryParsed(FilterRecent(resp, step, Minutes))
    /\ UNCHANGED <<tool, snapVars, out, done, intrAt, period, rsi_rev,
                   current_price>>

\* The end of the klines attempt (72-92) with `prices` as it left it, then the
\* check of 95.  A list found insufficient is not read again (97 replaces
\* it), so it is dropped here.
AfterSecondary(status, p, from) ==
    /\ secStatus' = status
    /\ IF Insufficient(p)
       THEN /\ prices' = <<>>
            /\ src' = "none"
            /\ cpSite' = "try"
            /\ GetRsiGoesOn("cp_main")
       ELSE /\ prices' = p
            /\ src' = from
            /\ cpSite' = cpSite
            /\ GetRsiEnds("returned", p)
    /\ UNCHANGED <<tool, snapVars, out, done, period, rsi_rev, primStatus, cpLast,
                   current_price>>

\* The klines request and the loop over its rows
SecondaryFetch ==
    /\ tool = "rsi" /\ pc = "hp_secondary"
    /\ \/ AfterSecondary(<<"raised", 0>>, prices, src)
       \/ \E resp \in KlineResponses(Minutes) :
             AfterSecondary(IF HasBad(resp) THEN <<"raised", 0>>
                                            ELSE <<"got", Len(resp)>>,
                            ParseKlines(resp), "secondary")
    /\ UNCHANGED intrAt

\* get_current_price returns a price
LookupReturns ==
    /\ cpLast' = "ok"
    /\ \E q \in 1..MaxQuote : current_price' = <<100 * q>>
    /\ cpSite' = "none"
    /\ GetRsiGoesOn("hp_synth")
    /\ UNCHANGED <<tool, snapVars, out, done, period, rsi_rev, primStatus,
                   secStatus, prices, src>>

\* The simple/price request of get_current_price (21-33)
CurrentPriceMain ==
    /\ tool = "rsi" /\ pc = "cp_main"
    /\ \/ LookupReturns
       \/ /\ GetRsiGoesOn("cp_backup")
          /\ UNCHANGED <<tool, snapVars, out, done, period, rsi_rev, primStatus,
                         secStatus, cpSite, cpLast, prices, src, current_price>>
    /\ UNCHANGED intrAt

\* The backup request failed (43-44): raise Exception
LookupRaises ==
    /\ cpLast' = "failed"
    /\ IF AfterLookupFailure(cpSite) = "handler"
       THEN \* raised inside the try of get_historical_prices: 107-108
            /\ cpSite' = "except"
            /\ GetRsiGoesOn("cp_main")
            /\ UNCHANGED <<prices, src>>
       ELSE \* raised inside the handler: get_historical_prices raises
            /\ cpSite' = cpSite
            /\ prices' = <<>>
            /\ src' = "none"
            /\ GetRsiEnds("raised", <<>>)
    /\ UNCHANGED <<tool, snapVars, out, done, period, rsi_rev, primStatus,
                   secStatus, current_price>>

\* The ticker/price request of get_current_price (36-44)
CurrentPriceBackup ==
    /\ tool = "rsi" /\ pc = "cp_backup"
    /\ (LookupReturns \/ LookupRaises)
    /\ UNCHANGED intrAt

\* The synthetic series of 97-104 or 109-116, returned as the DataFrame
Synthetic ==
    /\ tool = "rsi" /\ pc = "hp_synth"
    /\ \E noise \in [1..(Minutes + Extra) -> Noise] :
          LET synthetic == Synthesize(current_price[1], noise, Minutes) IN
          /\ prices' = synthetic
          /\ src' = "synthetic"
          /\ GetRsiEnds("returned", synthetic)
    /\ UNCHANGED <<tool, snapVars, out, done, intrAt, period, rsi_rev, primStatus,
                   secStatus, cpSite, cpLast, current_price>>

\* The locals of a get_rsi call, which end with it
LocalsGone ==
    /\ prices' = <<>>
    /\ src' = "none"
    /\ primStatus' = <<"untried", 0>>
    /\ secStatus' = <<"untried", 0>>
    /\ cpSite' = "none"
    /\ cpLast' = "none"
    /\ current_price' = None
    /\ hpResult' = "pending"
    /\ df' = <<>>
    /\ rsi' = None

\* get_all_rsi stores the value get_rsi returned (159, 162)
StoreRsi ==
    /\ tool = "rsi" /\ pc = "rsi_done"
    /\ IF coin = "bitcoin"
       THEN /\ btc_rsi' = rsi
            /\ eth_rsi' = eth_rsi
            /\ coin' = "ethereum"
            /\ pc' = "hp_primary"
       ELSE /\ eth_rsi' = rsi
            /\ btc_rsi' = btc_rsi
            /\ coin' = coin
            /\ pc' = "report"
    /\ LocalsGone
    /\ UNCHANGED <<tool, snapVars, out, done, intrAt, period, rsi_rev>>

\* The formatting of get_all_rsi and main's print
Report ==
    /\ tool = "rsi" /\ pc = "report"
    /\ out' = Append(out, MainPrints(FormatReport(btc_rsi, eth_rsi)))
    /\ done' = TRUE
    /\ pc' = "sleep"
    /\ UNCHANGED <<tool, snapVars, intrAt, acqVars, calcVars, btc_rsi, eth_rsi>>

\* time.sleep(3), then the next cycle
RsiSleep ==
    /\ tool = "rsi" /\ pc = "sleep"
    /\ pc' = "hp_primary"
    /\ coin' = "bitcoin"
    /\ btc_rsi' = None
    /\ eth_rsi' = None
    /\ out' = <<>>
    /\ done' = FALSE
    /\ UNCHANGED <<tool, snapVars, intrAt, prices, src, primStatus, secStatus,
                   cpSite, cpLast, current_price, hpResult, calcVars>>

------------------------------------------------------------------------------
\* KeyboardInterrupt

\* It reaches `except KeyboardInterrupt` of main: the loop is left at once
InterruptStops ==
    /\ pc \in {"fetch", "print_btc", "print_eth", "sleep",
               "hp_primary", "hp_secondary", "cp_main", "cp_backup", "hp_synth",
               "rsi_done", "report"}
    /\ ~BareExcept(tool, pc)
    /\ intrAt' = pc
    /\ pc' = "exited"
    /\ out' = IF tool = "rsi" THEN Append(out, ExitLine) ELSE out
    /\ LocalsGone
    /\ UNCHANGED <<tool, snapVars, done, coin, period, rsi_rev, btc_rsi, eth_rsi>>

\* It arrives during the klines request: `except: pass` (91-92)
InterruptInSecondary ==
    /\ pc = "hp_secondary" /\ BareExcept(tool, pc)
    /\ intrAt' = pc
    /\ AfterSecondary(<<"raised", 0>>, prices, src)

\* It arrives during the backup request: `except: raise Exception` (43-44)
InterruptInBackup ==
    /\ pc = "cp_backup" /\ BareExcept(tool, pc)
    /\ intrAt' = pc
    /\ LookupRaises

Interrupt == InterruptStops \/ InterruptInSecondary \/ InterruptInBackup

Next ==
    \/ FetchPrice \/ PrintBTC \/ PrintETH \/ SnapSleep
    \/ PrimaryFetch \/ SecondaryFetch \/ CurrentPriceMain \/ CurrentPriceBackup
    \/ Synthetic \/ StoreRsi \/ Report \/ RsiSleep
    \/ Interrupt

Spec == Init /\ [][Next]_vars

------------------------------------------------------------------------------
\* Properties of price history acquisition

Yield(status) == IF status[1] = "got" THEN status[2] ELSE 0

\* C1: get_historical_prices returns the series of the first source, in the
\* order market_chart, klines, synthetic, that yields at least 3 samples: the
\* primary series when it has 3 in-window samples, otherwise the secondary
\* series when the klines request yields 3 samples, and the synthetic series
\* of minutes + 5 samples only when the secondary was asked and raised or
\* yielded fewer; a secondary that raises leads to the synthetic series.
C1_FirstSufficientSource ==
    (tool = "rsi" /\ hpResult = "returned") =>
        IF Yield(primStatus) >= Threshold
        THEN src = "primary"
        ELSE IF Yield(secStatus) >= Threshold
        THEN src = "secondary"
        ELSE /\ src = "synthetic"
             /\ Len(df) = Minutes + Extra
             /\ secStatus[1] # "untried"

\* C2: get_historical_prices raises exactly when the get_current_price call it
\* last made failed on both of its requests; a failure of the market_chart or
\* of the klines request never makes it raise, and the exception of the lookup
\* leaves it without a series.
C2_RaisesOnlyOnLookupFailure ==
    tool = "rsi" =>
        /\ hpResult = "raised" => (cpLast = "failed" /\ df = <<>>)
        /\ hpResult = "returned" => cpLast # "failed"

C2_Witness ==
    /\ tool = "rsi" /\ pc = "rsi_done"
    /\ hpResult = "raised"
    /\ primStatus[1] = "got" /\ secStatus[1] = "raised"
    /\ cpLast = "failed"

\* C10: a series that get_historical_prices(minutes=3) returns inside get_rsi
\* has at least period + 1 = 4 samples, so that get_rsi returns a number, and
\* returns None only when the acquisition raised.
C10_ReturnedSeriesSuffices ==
    (tool = "rsi" /\ pc = "rsi_done") =>
        /\ hpResult = "returned" => (Len(df) >= Period + 1 /\ rsi # None)
        /\ rsi = None => hpResult = "raised"

------------------------------------------------------------------------------
\* Properties of calculate_rsi

\* The index of the sample of timestamp ts
IndexAt(s, ts) == (CHOOSE i \in 1..Len(s) : s[i].timestamp = ts)

Applied == tool = "calc" /\ pc \in {"calculated", "compared"}

\* C3: for a series shorter than period + 1, the empty one included,
\* calculate_rsi returns None.
C3_ShortSeriesNoValue ==
    (Applied /\ Len(df) < period + 1) => rsi = None

C3_Witness ==
    /\ Applied
    /\ Len(df) = period
    /\ rsi = None

\* The last per deltas, in the order of the timestamps, are all positive
LastDeltasPositive(s, per) ==
    \A t \in (Len(s) - per + 1)..Len(s) :
        s[IndexAt(s, t)].price > s[IndexAt(s, t - 1)].price

\* C4: for a series of at least period + 1 samples whose last period deltas
\* are all positive, relative strength is 0 and calculate_rsi returns 0.
C4_NoLossGivesZero ==
    (Applied /\ Len(df) >= period + 1 /\ LastDeltasPositive(df, period)) =>
        /\ RsSeries(df, period)[Len(df)] = <<0, 1>>
        /\ rsi = <<0>>

C4_Witness ==
    /\ Applied
    /\ period = Period
    /\ Len(df) = period + 2
    /\ LastDeltasPositive(df, period)
    /\ df[IndexAt(df, 2)].price < df[IndexAt(df, 1)].price
    /\ rsi = <<0>>

StrictlyIncreasing(s) ==
    \A t \in 2..Len(s) : s[IndexAt(s, t)].price > s[IndexAt(s, t - 1)].price

\* C5: calculate_rsi of a strictly increasing series is strictly greater than
\* calculate_rsi of the strictly decreasing series of the same length and the
\* same steps.
C5_IncreasingAboveDecreasing ==
    (tool = "calc" /\ pc = "compared" /\ Len(df) >= period + 1
        /\ StrictlyIncreasing(df)) =>
            /\ rsi # None
            /\ rsi_rev # None
            /\ rsi[1] > rsi_rev[1]

------------------------------------------------------------------------------
\* Properties of the RSI report

\* The cycle of the RSI tool has printed its line, which is out[1]
Reported == tool = "rsi" /\ done

\* C6: in a cycle in which neither btc_rsi nor eth_rsi has a value, the line
\* printed is the sentinel failure line and no report line.
C6_SentinelWhenNoValue ==
    (Reported /\ btc_rsi = None /\ eth_rsi = None) => out[1] = Sentinel

\* The positions of a word in a line
Positions(line, word) == {i \in 1..Len(line) : line[i] = word}

\* n is the RSI h (in hundredths) cut down to its integer part
Truncates(n, h) == 100 * n <= h /\ h < 100 * (n + 1)

\* The clause `name <n>` is in the line, once, with n the truncated value
HasClause(line, name, r) ==
    /\ Cardinality(Positions(line, name)) = 1
    /\ \A i \in Positions(line, name) :
          /\ i < Len(line)
          /\ \E n \in 0..100 : line[i + 1] = ToString(n) /\ Truncates(n, r[1])

\* C7: the report line is "rsi", then " brsi <n>" exactly if btc_rsi has a
\* value, then " ersi <n>" exactly if eth_rsi has one, <n> being the value
\* truncated to an integer, and brsi comes before ersi.
C7_ReportLine ==
    Reported =>
        LET line == out[1] IN
        /\ line[1] = "rsi"
        /\ Len(line) = 1 + (IF btc_rsi # None THEN 2 ELSE 0)
                         + (IF eth_rsi # None THEN 2 ELSE 0)
        /\ IF btc_rsi # None THEN HasClause(line, "brsi", btc_rsi)
                             ELSE Positions(line, "brsi") = {}
        /\ IF eth_rsi # None THEN HasClause(line, "ersi", eth_rsi)
                             ELSE Positions(line, "ersi") = {}
        /\ \A i \in Positions(line, "brsi"), j \in Positions(line, "ersi") : i < j

\* Both values are there and neither is a whole number: 66.67 and 33.33
C7_Witness ==
    /\ Reported
    /\ btc_rsi = <<6667>>
    /\ eth_rsi = <<3333>>
    /\ out[1] = <<"rsi", "brsi", "66", "ersi", "33">>

------------------------------------------------------------------------------
\* Properties of the price snapshot

\* The texts of the price lines printed, in the order of printing
PricesPrinted ==
    LET lines == SelectSeq(out, LAMBDA l : l.kind = "price")
    IN  [i \in 1..Len(lines) |-> lines[i].text]

\* The price line due for a get_price call
Due(call) == IF call[2] # None THEN <<ToString(call[2][1])>> ELSE <<>>

\* C8: in a cycle of the snapshot tool both symbols are fetched whatever the
\* other fetch did, and the prices printed are those of the fetches that
\* succeeded, the BTC price before the ETH price.
C8_SnapshotCycle ==
    (tool = "snapshot" /\ done) =>
        /\ Len(fetchLog) = 2
        /\ fetchLog[1][1] = "BTCUSDT"
        /\ fetchLog[2][1] = "ETHUSDT"
        /\ PricesPrinted = Due(fetchLog[1]) \o Due(fetchLog[2])

\* The BTC fetch failed; the ETH fetch was made all the same and is printed
C8_Witness ==
    /\ tool = "snapshot" /\ done
    /\ fetchLog[1] = <<"BTCUSDT", None>>
    /\ fetchLog[2] = <<"ETHUSDT", <<2>>>>
    /\ PricesPrinted = <<"2">>

------------------------------------------------------------------------------
\* Properties of the interrupt

\* C9 as stated: an interrupt stops the loop only once the cycle in progress
\* has finished its fetches and printed all of its output.
C9_StopsAfterCycle ==
    (pc = "exited" /\ intrAt # "none") => done

\* C9 amended: an interrupt stops the loop at once, where it arrives, and what
\* is left of the cycle in progress is not done (the cycle is complete only if
\* the interrupt arrived during the sleep); but an interrupt that arrives
\* during the klines request or the backup price request of the RSI tool is
\* caught there as a failure of that request and does not stop the loop.
C9_StopsAtOnce ==
    intrAt # "none" =>
        IF tool = "rsi" /\ intrAt \in {"hp_secondary", "cp_backup"}
        THEN pc # "exited"
        ELSE /\ pc = "exited"
             /\ (done <=> intrAt = "sleep")

\* The snapshot tool is stopped between its two output lines: the ETH price
\* was fetched and is never printed
C9_Witness ==
    /\ tool = "snapshot" /\ pc = "exited"
    /\ intrAt = "print_eth"
    /\ ~done
    /\ Len(fetchLog) = 2 /\ fetchLog[2][2] # None
    /\ Len(PricesPrinted) = 1

==============================================================================
